---- MODULE Spec2Model ----
(***************************************************************************)
(* Model of purge.py: list the active tags of a quay.io repository, keep   *)
(* those older than config.age seconds, print one report line per kept tag *)
(* and, with --purge, DELETE each of them.                                  *)
(*                                                                         *)
(* Times are whole seconds: Tag.age subtracts a strptime result (second    *)
(* resolution) from a clock reading with microsecond=0, so every timedelta *)
(* is a whole number of seconds and total_seconds() is integral.           *)
(***************************************************************************)
EXTENDS Integers, Sequences, FiniteSets

VARIABLES
    pc,            \* position of main(): start, filter, report, print, delete,
                   \* deleted, done, abort_list, abort_decode, abort_delete
    config,        \* Config: [repository, age, purge], frozen
    registry,      \* the registry's active tags, in the order its API lists them
    tags,          \* main's `tags`: the deserialized Tag records
    expired_tags,  \* main's `expired_tags` (being built while pc = "filter")
    filterClock,   \* filterClock[k]: the clock reading line 38 took for tags[k]
    i,             \* index in expired_tags of the loop's current `tag`
    secs,          \* first field of the f-string, evaluated before the second
    trace,         \* everything the run did that is visible outside: requests, prints
    now,           \* the wall clock, in seconds
    advanced,      \* the clock has moved forward since the run began
    wentBack       \* the clock has been set back since the run began

vars == <<pc, config, registry, tags, expired_tags, filterClock, i, secs, trace,
          now, advanced, wentBack>>

----------------------------------------------------------------------------
(* Bounds *)

MaxTags == 2      \* the registry holds at most this many active tags
MaxClock == 2     \* clock readings and last_modified stamps range over 0..MaxClock
MaxAge == 1       \* config.age ranges over -MaxAge..MaxAge

Repository == "myrepo"

\* value.get('last_modified') is None when the record has no such field
Absent == [form |-> "None", at |-> 0]
\* a last_modified string that does not match '%a, %d %b %Y %H:%M:%S %z'
Garbage == [form |-> "garbage", at |-> 0]
\* a well-formed last_modified string naming the instant t
Stamp(t) == [form |-> "rfc1123", at |-> t]

LastModified == {Stamp(t) : t \in 0..MaxClock} \cup {Absent, Garbage}

RECURSIVE SeqsUpTo(_, _)
SeqsUpTo(S, n) ==
    IF n = 0 THEN {<<>>}
    ELSE LET shorter == SeqsUpTo(S, n - 1)
         IN shorter \cup {Append(s, x) : s \in {t \in shorter : Len(t) = n - 1}, x \in S}

\* tag names are unique within a repository's active tags; they are labels only,
\* so the k-th listed tag gets the k-th of these (not in sorted order)
NameOrder == <<"v2", "v1", "v4", "v3">>

Listings ==
    {[k \in 1..Len(s) |-> [name |-> NameOrder[k], last_modified |-> s[k]]] :
        s \in SeqsUpTo(LastModified, MaxTags)}

----------------------------------------------------------------------------
(* Tag *)

\* datetime.timedelta keeps (days, seconds) with 0 <= seconds < 86400
TimeDelta(s) == [days |-> s \div 86400, seconds |-> s % 86400]

\* timedelta.total_seconds()
total_seconds(td) == td.days * 86400 + td.seconds

\* mutant: a missing or malformed last_modified is taken for the epoch
ParseableAlways(tag) == TRUE

\* strptime succeeds exactly on a well-formed stamp
Parseable(tag) == tag.last_modified.form = "rfc1123"

\* Tag.last_modified_datetime
last_modified_datetime(tag) == tag.last_modified.at

\* mutant: the subtraction of line 80 the other way round
ageReversed(tag, clock) == TimeDelta(tag.last_modified.at - clock)

\* Tag.age at clock reading `clock`
age(tag, clock) == TimeDelta(clock - last_modified_datetime(tag))

\* int(x) of an integral float
int(x) == x

\* str(timedelta): "[D day[s], ]H:MM:SS"
str(td) ==
    [days |-> td.days,
     hh |-> td.seconds \div 3600,
     mm |-> (td.seconds % 3600) \div 60,
     ss |-> td.seconds % 60]

\* the seconds a printed duration stands for
DurationSeconds(d) == d.days * 86400 + d.hh * 3600 + d.mm * 60 + d.ss

\* deserialize(value, Tag), on the two fields the program reads
deserialize(value) == [name |-> value.name, last_modified |-> value.last_modified]

\* mutant: a negative threshold is clamped to zero
ExpiredClamped(td) ==
    total_seconds(td) > (IF config.age < 0 THEN 0 ELSE config.age)

\* mutant: the comparison of line 38 written >=
ExpiredOrEqual(td) == total_seconds(td) >= config.age

\* the filter predicate of line 38
Expired(td) == total_seconds(td) > config.age

----------------------------------------------------------------------------
(* Events of the trace *)

GetEvent(result) == [kind |-> "GET", result |-> result]
LineEvent(name, s, d, end) ==
    [kind |-> "line", repository |-> config.repository, name |-> name,
     secs |-> s, dur |-> d, end |-> end]
DeleteEvent(name, ok) == [kind |-> "DELETE", name |-> name, ok |-> ok]
DeletedEvent == [kind |-> "deleted", end |-> "\n"]

\* how urlopen + json.load + data['tags'] of lines 34-37 can end
GetResults == {"ok", "http_error", "transport_error", "malformed_json"}

Terminal == pc \in {"done", "abort_list", "abort_decode", "abort_delete"}

RemoveTag(reg, name) ==
    LET Keep(r) == r.name # name IN SelectSeq(reg, Keep)

----------------------------------------------------------------------------
(* main *)

Init ==
    /\ pc = "start"
    /\ config \in [repository : {Repository}, age : (-MaxAge)..MaxAge, purge : BOOLEAN]
    /\ registry \in Listings
    /\ tags = <<>>
    /\ expired_tags = <<>>
    /\ filterClock = <<>>
    /\ i = 1
    /\ secs = 0
    /\ trace = <<>>
    /\ now \in 0..MaxClock
    /\ advanced = FALSE
    /\ wentBack = FALSE

\* mutant: a failed list GET is taken for an empty listing
FetchPcIgnoringFailure(result) == "filter"

\* urlopen and json.load raise on failure and nothing catches it
FetchPc(result) == IF result = "ok" THEN "filter" ELSE "abort_list"

\* lines 32-37: the list GET, json.load and the deserialization of data['tags']
Fetch ==
    /\ pc = "start"
    /\ \E result \in GetResults :
        /\ trace' = Append(trace, GetEvent(result))
        /\ tags' = IF result = "ok"
                   THEN [k \in 1..Len(registry) |-> deserialize(registry[k])]
                   ELSE tags
        /\ pc' = FetchPc(result)
    /\ UNCHANGED <<config, registry, expired_tags, filterClock, i, secs, now,
                   advanced, wentBack>>

\* mutant: the loop stops one tag early
LoopPcStopsEarly(expired, next) == IF next < Len(expired) THEN "report" ELSE "done"

\* line 40: where the loop goes once expired[next] is the tag to handle
LoopPc(expired, next) == IF next <= Len(expired) THEN "report" ELSE "done"

\* mutant: the DELETE request is built but never sent
AfterLineWithoutRequest(purge, expired, next) ==
    IF purge THEN "deleted" ELSE IF next <= Len(expired) THEN "report" ELSE "done"

\* mutant: the DELETE is issued whatever config.purge says
AfterLineAlwaysDelete(purge, expired, next) == "delete"

\* lines 41-43: after the report line, the DELETE if config.purge
AfterLine(purge, expired, next) ==
    IF purge THEN "delete" ELSE LoopPc(expired, next)

\* mutant: a failed DELETE is ignored
AfterDeleteIgnoringFailure(ok) == "deleted"

\* line 45: urlopen raises on failure, which ends the run
AfterDelete(ok) == IF ok THEN "deleted" ELSE "abort_delete"

\* mutant: the loop handles the same tag again
NextIndexStuck(k) == k

\* line 40: the for loop's step
NextIndex(k) == k + 1

\* line 38, one tag of the comprehension: tag.age reads the clock
FilterTag ==
    /\ pc = "filter"
    /\ LET k == Len(filterClock) + 1 IN
        IF k > Len(tags)
        THEN /\ pc' = LoopPc(expired_tags, 1)
             /\ UNCHANGED <<expired_tags, filterClock>>
        ELSE IF ~Parseable(tags[k])
        THEN /\ pc' = "abort_decode"
             /\ UNCHANGED <<expired_tags, filterClock>>
        ELSE LET td == age(tags[k], now) IN
             /\ filterClock' = Append(filterClock, now)
             /\ expired_tags' = IF Expired(td) THEN Append(expired_tags, tags[k])
                                ELSE expired_tags
             /\ pc' = pc
    /\ UNCHANGED <<config, registry, tags, i, secs, trace, now, advanced, wentBack>>

\* line 41, first replacement field: int(tag.age.total_seconds()); tag.age parses
\* last_modified anew on every access
ReadAge ==
    /\ pc = "report"
    /\ IF Parseable(expired_tags[i])
       THEN /\ secs' = int(total_seconds(age(expired_tags[i], now)))
            /\ pc' = "print"
       ELSE /\ secs' = secs
            /\ pc' = "abort_decode"
    /\ UNCHANGED <<config, registry, tags, expired_tags, filterClock, i, trace, now,
                   advanced, wentBack>>

\* line 41, second replacement field [{tag.age}] and the print itself
PrintLine ==
    /\ pc = "print"
    /\ IF ~Parseable(expired_tags[i])
       THEN /\ pc' = "abort_decode"
            /\ UNCHANGED <<trace, i>>
       ELSE /\ trace' = Append(trace,
                               LineEvent(expired_tags[i].name, secs,
                                         str(age(expired_tags[i], now)),
                                         IF config.purge THEN "  " ELSE "\n"))
            /\ LET to == AfterLine(config.purge, expired_tags, NextIndex(i)) IN
                /\ pc' = to
                /\ i' = IF to \in {"delete", "deleted"} THEN i ELSE NextIndex(i)
    /\ UNCHANGED <<config, registry, tags, expired_tags, filterClock, secs, now,
                   advanced, wentBack>>

\* lines 44-45: the blocking DELETE; urlopen raises on a non-2xx status or a
\* transport error, and a request that failed in transit may or may not have
\* taken effect on the registry
Delete ==
    /\ pc = "delete"
    /\ \E ok \in BOOLEAN, applied \in BOOLEAN :
        /\ ok => applied
        /\ trace' = Append(trace, DeleteEvent(expired_tags[i].name, ok))
        /\ registry' = IF applied THEN RemoveTag(registry, expired_tags[i].name)
                       ELSE registry
        /\ pc' = AfterDelete(ok)
    /\ UNCHANGED <<config, tags, expired_tags, filterClock, i, secs, now, advanced,
                   wentBack>>

\* line 46
PrintDeleted ==
    /\ pc = "deleted"
    /\ trace' = Append(trace, DeletedEvent)
    /\ i' = NextIndex(i)
    /\ pc' = LoopPc(expired_tags, NextIndex(i))
    /\ UNCHANGED <<config, registry, tags, expired_tags, filterClock, secs, now,
                   advanced, wentBack>>

\* the wall clock moves on while the program runs
Tick ==
    /\ ~Terminal
    /\ now < MaxClock
    /\ now' = now + 1
    /\ advanced' = TRUE
    /\ UNCHANGED <<pc, config, registry, tags, expired_tags, filterClock, i, secs,
                   trace, wentBack>>

\* datetime.now() is the wall clock, which an operator or NTP can set back
SetBack ==
    /\ ~Terminal
    /\ ~wentBack
    /\ now > 0
    /\ now' = now - 1
    /\ wentBack' = TRUE
    /\ UNCHANGED <<pc, config, registry, tags, expired_tags, filterClock, i, secs,
                   trace, advanced>>

Next ==
    \/ Fetch
    \/ FilterTag
    \/ ReadAge
    \/ PrintLine
    \/ Delete
    \/ PrintDeleted
    \/ Tick
    \/ SetBack

Spec == Init /\ [][Next]_vars

----------------------------------------------------------------------------
(* What a run shows: parts of the trace, and the ages the filter saw *)

IsRequest(e) == e.kind \in {"GET", "DELETE"}
IsPrint(e) == e.kind \in {"line", "deleted"}
IsLine(e) == e.kind = "line"
IsDelete(e) == e.kind = "DELETE"

Requests == SelectSeq(trace, IsRequest)
Prints == SelectSeq(trace, IsPrint)
Lines == SelectSeq(trace, IsLine)
Deletes == SelectSeq(trace, IsDelete)

\* the comprehension of line 38 has finished and bound expired_tags
Filtered == pc \in {"report", "print", "delete", "deleted", "done", "abort_delete"}

\* the age in seconds of tags[k] at the clock reading the filter took for it
FilterAge(k) == filterClock[k] - tags[k].last_modified.at

\* position in the fetched list of the tag called name
IndexOf(name) == CHOOSE k \in 1..Len(tags) : tags[k].name = name

\* the fetched tags among the first n whose filter-time age exceeds config.age
RECURSIVE Older(_)
Older(n) ==
    IF n = 0 THEN <<>>
    ELSE IF FilterAge(n) > config.age THEN Append(Older(n - 1), tags[n])
    ELSE Older(n - 1)

NamesOf(s) == [k \in 1..Len(s) |-> s[k].name]

IsPrefix(s, t) == Len(s) <= Len(t) /\ \A k \in 1..Len(s) : s[k] = t[k]

InSeq(x, s) == \E k \in 1..Len(s) : s[k] = x

----------------------------------------------------------------------------
(* C1 *)

\* C1: once the filter has run, expired_tags is exactly the sub-sequence of the
\* fetched tags whose age in seconds at filter time is strictly greater than
\* config.age, in the registry's order; a tag whose age equals config.age is not
\* in it.
C1_ExpiredTagsAreTheStrictlyOlderTags ==
    Filtered =>
        /\ Len(filterClock) = Len(tags)
        /\ expired_tags = Older(Len(tags))
        /\ \A k \in 1..Len(tags) :
              FilterAge(k) = config.age => ~InSeq(tags[k], expired_tags)

\* a filtered run that kept a tag and dropped one whose age equals the threshold
C1_Witness ==
    /\ Filtered
    /\ Len(expired_tags) >= 1
    /\ \E k \in 1..Len(tags) : FilterAge(k) = config.age

----------------------------------------------------------------------------
(* C2 *)

\* the report of a run that reads `clock` at every clock access
ReportLine(tag, clock) ==
    LET a == clock - tag.last_modified.at IN
    [kind |-> "line", repository |-> config.repository, name |-> tag.name,
     secs |-> a,
     dur |-> [days |-> a \div 86400, hh |-> (a % 86400) \div 3600,
              mm |-> (a % 3600) \div 60, ss |-> a % 60],
     end |-> "\n"]

RECURSIVE Report(_, _)
Report(n, clock) ==
    IF n = 0 THEN <<>>
    ELSE IF clock - tags[n].last_modified.at > config.age
    THEN Append(Report(n - 1, clock), ReportLine(tags[n], clock))
    ELSE Report(n - 1, clock)

\* C2: without --purge no DELETE is ever issued: the only request is the one list
\* GET, no step changes the registry's tags, and with the clock held fixed the
\* printed lines are a function of the fetched tags, the threshold and that clock.
C2_DryRunIsAPureRead ==
    /\ [][~config.purge => registry' = registry]_vars
    /\ [](~config.purge =>
            /\ Deletes = <<>>
            /\ Len(Requests) <= 1
            /\ \A k \in 1..Len(Requests) : Requests[k].kind = "GET"
            /\ (pc = "done" /\ ~advanced /\ ~wentBack) =>
                   Prints = Report(Len(tags), now))

\* a finished dry run under a fixed clock that printed a line and skipped a tag
C2_Witness ==
    /\ ~config.purge
    /\ pc = "done"
    /\ ~advanced /\ ~wentBack
    /\ Len(Prints) >= 1
    /\ Len(tags) > Len(Prints)
    /\ registry = tags

----------------------------------------------------------------------------
(* C3 *)

\* C3: with --purge, the DELETEs issued so far are for the first expired tags, one
\* each and in expired_tags order, every one of them a tag whose filter-time age
\* exceeds config.age, and none is issued after a failed one; a run that finishes
\* has issued exactly one per expired tag.
C3_DeletesFollowExpiredTags ==
    config.purge =>
        /\ IsPrefix(NamesOf(Deletes), NamesOf(expired_tags))
        /\ \A p \in 1..Len(Deletes) :
              /\ FilterAge(IndexOf(Deletes[p].name)) > config.age
              /\ p < Len(Deletes) => Deletes[p].ok
        /\ pc = "done" => Len(Deletes) = Len(expired_tags)

\* a finished purge that deleted a tag and kept a younger one
C3_Witness ==
    /\ config.purge
    /\ pc = "done"
    /\ Len(Deletes) >= 1
    /\ Len(tags) > Len(expired_tags)
    /\ \A p \in 1..Len(Deletes) : Deletes[p].ok

----------------------------------------------------------------------------
(* C4 *)

IsLoopEvent(e) == e.kind # "GET"

\* what the loop of lines 40-46 has done so far
LoopEvents == SelectSeq(trace, IsLoopEvent)

\* C4: with --purge the loop's events come in rounds of three, one round per expired
\* tag in expired_tags order: the tag's report line (ended by two spaces, no
\* newline), then its DELETE, then `deleted`, which is printed only when that DELETE
\* returned success; the next tag's line comes only after `deleted`.
C4_LineThenDeleteThenDeleted ==
    config.purge =>
        \A p \in 1..Len(LoopEvents) :
            LET e == LoopEvents[p]
                t == (p + 2) \div 3
            IN /\ t <= Len(expired_tags)
               /\ (p % 3 = 1) =>
                     e.kind = "line" /\ e.name = expired_tags[t].name /\ e.end = "  "
               /\ (p % 3 = 2) =>
                     e.kind = "DELETE" /\ e.name = expired_tags[t].name
               /\ (p % 3 = 0) =>
                     e.kind = "deleted" /\ LoopEvents[p - 1].ok

\* a purge that has printed the second tag's line after the first tag's `deleted`
C4_Witness ==
    /\ config.purge
    /\ Len(LoopEvents) >= 4
    /\ LoopEvents[3].kind = "deleted"
    /\ LoopEvents[4].kind = "line"

----------------------------------------------------------------------------
(* C5 *)

RegistryNames == {registry[k].name : k \in 1..Len(registry)}

\* C5: a failed DELETE is the last thing the run does: it is the last event of the
\* trace (no `deleted` for its tag, no line and no DELETE for a later tag), the run
\* has aborted, the expired tags before it are gone from the registry and the
\* expired tags after it are still there.
C5_FailedDeleteEndsTheRun ==
    \A p \in 1..Len(trace) :
        (trace[p].kind = "DELETE" /\ ~trace[p].ok) =>
            LET k == Len(Deletes) IN
            /\ p = Len(trace)
            /\ pc = "abort_delete"
            /\ config.purge
            /\ trace[p].name = expired_tags[k].name
            /\ \A q \in 1..(k - 1) : expired_tags[q].name \notin RegistryNames
            /\ \A q \in (k + 1)..Len(expired_tags) :
                  expired_tags[q].name \in RegistryNames

\* the DELETE of the second expired tag failed after the first was deleted
C5_Witness ==
    /\ pc = "abort_delete"
    /\ Len(Deletes) = 2
    /\ Deletes[1].ok /\ ~Deletes[2].ok
    /\ Deletes[1].name \notin RegistryNames

----------------------------------------------------------------------------
(* C6 *)

\* C6: when the list GET fails (HTTP status, transport, malformed JSON) the run has
\* aborted with that GET as its only event: nothing is printed and no DELETE is
\* issued, with or without --purge.
C6_FailedListAbortsBeforeAnything ==
    \A p \in 1..Len(trace) :
        (trace[p].kind = "GET" /\ trace[p].result # "ok") =>
            /\ pc = "abort_list"
            /\ Len(trace) = 1
            /\ Prints = <<>>
            /\ Deletes = <<>>

\* a purge over a registry holding an old tag, whose list GET failed
C6_Witness ==
    /\ pc = "abort_list"
    /\ config.purge
    /\ \E k \in 1..Len(registry) :
          /\ registry[k].last_modified.form = "rfc1123"
          /\ now - registry[k].last_modified.at > config.age

----------------------------------------------------------------------------
(* C7 *)

LinesNamed(name) == {p \in 1..Len(Lines) : Lines[p].name = name}

\* C7 as claimed: in every run that has ended, each fetched tag the filter found
\* older than config.age has exactly one output line and each other tag has none.
C7_Original_EveryRunPrintsEveryOlderTag ==
    (pc \in {"done", "abort_list", "abort_decode", "abort_delete"}) =>
        \A k \in 1..Len(filterClock) :
            Cardinality(LinesNamed(tags[k].name))
                = IF FilterAge(k) > config.age THEN 1 ELSE 0

\* C7 as amended: in every run the lines printed so far are those of the first tags
\* older than config.age, one each and in the fetched order, so a tag that is not
\* older never has a line; a run that completes has printed one line for every
\* older tag.
C7_CompletedRunPrintsEveryOlderTag ==
    /\ IsPrefix(NamesOf(Lines), NamesOf(Older(Len(filterClock))))
    /\ pc = "done" =>
          /\ Len(filterClock) = Len(tags)
          /\ NamesOf(Lines) = NamesOf(Older(Len(tags)))

\* a completed run that printed a line for one tag and none for another
C7_Witness ==
    /\ pc = "done"
    /\ Len(Lines) >= 1
    /\ Len(tags) > Len(Lines)

----------------------------------------------------------------------------
(* C8 *)

\* C8 as claimed: under a negative config.age the filter keeps every fetched tag.
C8_Original_NegativeAgeMatchesAll ==
    (Filtered /\ config.age < 0) => expired_tags = tags

\* C8 as amended: a negative config.age is accepted, and under it the filter keeps
\* every fetched tag whose last_modified is not after the clock reading taken for
\* it, so a list of such tags is kept whole.
C8_NegativeAgeMatchesAllPastTags ==
    (Filtered /\ config.age < 0) =>
        /\ \A k \in 1..Len(tags) : FilterAge(k) >= 0 => InSeq(tags[k], expired_tags)
        /\ (\A k \in 1..Len(tags) : FilterAge(k) >= 0) => expired_tags = tags

\* a filtered run under a negative threshold over tags none of which is in the future
C8_Witness ==
    /\ Filtered
    /\ config.age < 0
    /\ Len(tags) >= 2
    /\ \A k \in 1..Len(tags) : FilterAge(k) >= 0
    /\ \E k \in 1..Len(tags) : FilterAge(k) = 0

----------------------------------------------------------------------------
(* C9 *)

WellFormed(tag) == tag.last_modified.form = "rfc1123"

\* C9 as claimed, in the runs where it could show: a purge that aborts on a tag
\* whose last_modified is absent or unparseable, listed after a tag the filter found
\* expired, has deleted a tag before it aborts.
C9_Original_DecodeAbortAfterDeletions ==
    (/\ pc = "abort_decode"
     /\ config.purge
     /\ \E k \in 1..Len(filterClock) : FilterAge(k) > config.age)
        => \E p \in 1..Len(Deletes) : Deletes[p].ok

\* C9 as amended: a tag record whose last_modified is absent or unparseable passes
\* deserialization and makes the run abort when the filter computes that tag's age,
\* which is before anything is printed and before any DELETE: the abort never comes
\* after a deletion, and no run with such a tag gets past the filter.
C9_DecodeAbortIsInTheFilter ==
    /\ (trace # <<>> /\ trace[1].result = "ok") =>
          /\ pc # "abort_list"
          /\ Len(tags) >= Len(registry)
    /\ pc = "abort_decode" =>
          LET k == Len(filterClock) + 1 IN
          /\ k <= Len(tags)
          /\ ~WellFormed(tags[k])
          /\ \A q \in 1..(k - 1) : WellFormed(tags[q])
          /\ trace = <<GetEvent("ok")>>
          /\ registry = tags
    /\ Filtered => \A k \in 1..Len(tags) : WellFormed(tags[k])

\* a purge that aborted on a malformed tag listed after an expired one
C9_Witness ==
    /\ pc = "abort_decode"
    /\ config.purge
    /\ Len(filterClock) >= 1
    /\ FilterAge(1) > config.age

----------------------------------------------------------------------------
(* C10 *)

\* C10: as long as the clock has not been set back, both ages printed on a report
\* line (the whole seconds, read first, and the duration, read second) are at least
\* the age the filter read for that tag, hence strictly greater than config.age, and
\* the duration is at least the whole seconds.
C10_PrintedAgeAtLeastFilterAge ==
    ~wentBack =>
        /\ \A p \in 1..Len(Lines) :
              LET k == IndexOf(Lines[p].name) IN
              /\ Lines[p].secs >= FilterAge(k)
              /\ Lines[p].secs > config.age
              /\ DurationSeconds(Lines[p].dur) >= Lines[p].secs
        /\ pc = "print" => secs >= FilterAge(IndexOf(expired_tags[i].name))

\* a line whose three clock readings all differ: filter, whole seconds, duration
C10_Witness ==
    /\ ~wentBack
    /\ \E p \in 1..Len(Lines) :
          /\ Lines[p].secs > FilterAge(IndexOf(Lines[p].name))
          /\ DurationSeconds(Lines[p].dur) > Lines[p].secs

====
